---- MODULE Spec2Model ----
(***************************************************************************)
(* A model of the persistent key-value store of rust-kv-store             *)
(* (src/src/lib.rs): RocksDBStore over an ordered byte-keyed engine, the   *)
(* KVStore facade that forwards to it, and the callers (gRPC handlers,     *)
(* src/src/grpc_server.rs) that share one store and call it concurrently.  *)
(*                                                                         *)
(* Every engine call (db.get, db.put, db.delete, db.write, db.iterator)    *)
(* is one atomic step; a store operation that makes two engine calls is    *)
(* two steps, and other callers may run between them.                      *)
(***************************************************************************)
EXTENDS Integers, Sequences, FiniteSets, TLC

\* ------------------------------------------------------------------ bounds
\* Number of concurrent callers sharing the store (Arc<KVStore>).
NumCallers == 2
\* Number of store operations begun in one behaviour.
MaxOps == 2
\* Largest number of dimensions, and of data chunks, of an envelope that is
\* encoded on its own.
MaxLen == 2

Callers == 1..NumCallers

\* ------------------------------------------------------- option and result
None == [tag |-> "None"]
Some(x) == [tag |-> "Some", v |-> x]
IsSome(o) == o.tag = "Some"

Ok(x) == [ok |-> TRUE, val |-> x]
Err == [ok |-> FALSE]

\* ------------------------------------------------------------- key encoding
\* A mutant of the key encoding: least significant byte first.
RECURSIVE LeBytes(_, _)
LeBytes(k, n) == IF n = 0 THEN <<>> ELSE <<k % 256>> \o LeBytes(k \div 256, n - 1)

\* u64::to_be_bytes: the n low-order bytes of k, most significant first.
RECURSIVE BeBytes(_, _)
BeBytes(k, n) == IF n = 0 THEN <<>> ELSE Append(BeBytes(k \div 256, n - 1), k % 256)

\* A mutant of the key encoding: the leading zero bytes are left out.
RECURSIVE KeyBytesTrimmed(_)
KeyBytesTrimmed(k) ==
    IF k < 256 THEN <<k>> ELSE Append(KeyBytesTrimmed(k \div 256), k % 256)

KeyBytes(k) == BeBytes(k, 8)

\* u64::from_be_bytes on an 8-byte key.
RECURSIVE FromBeBytes(_)
FromBeBytes(b) == IF b = <<>> THEN 0 ELSE FromBeBytes(SubSeq(b, 1, Len(b) - 1)) * 256 + b[Len(b)]

\* Byte-wise lexicographic order, the engine's key order.
RECURSIVE LexLess(_, _)
LexLess(a, b) ==
    IF a = <<>> THEN b # <<>>
    ELSE IF b = <<>> THEN FALSE
    ELSE IF a[1] # b[1] THEN a[1] < b[1]
    ELSE LexLess(Tail(a), Tail(b))

\* ----------------------------------------------------------- value envelope
\* kvstore::Value as the callers build it: shape, dtype, size_check,
\* key_check, data (a list of byte strings).
DefaultValue == [shape |-> <<>>, dtype |-> 0, size_check |-> 0, key_check |-> 0, data |-> <<>>]

\* Base-128 varint, least significant group first.
RECURSIVE Varint(_)
Varint(n) == IF n < 128 THEN <<n>> ELSE <<(n % 128) + 128>> \o Varint(n \div 128)

RECURSIVE Flatten(_)
Flatten(ss) == IF ss = <<>> THEN <<>> ELSE Head(ss) \o Flatten(Tail(ss))

\* A mutant of the encoder: a data chunk of length zero is left out.
EncodeValueSkipsEmptyChunk(v) ==
    LET packed == Flatten([i \in 1..Len(v.shape) |-> Varint(v.shape[i])])
    IN  (IF v.shape = <<>> THEN <<>> ELSE <<10>> \o Varint(Len(packed)) \o packed)
        \o (IF v.dtype = 0 THEN <<>> ELSE <<16>> \o Varint(v.dtype))
        \o (IF v.size_check = 0 THEN <<>> ELSE <<24>> \o Varint(v.size_check))
        \o (IF v.key_check = 0 THEN <<>> ELSE <<32>> \o Varint(v.key_check))
        \o Flatten([i \in 1..Len(v.data) |->
                        IF v.data[i] = <<>> THEN <<>>
                        ELSE <<42>> \o Varint(Len(v.data[i])) \o v.data[i]])

\* Message::encode_to_vec for Value: fields in tag order, default scalars and
\* empty repeated fields omitted, shape packed, one record per data element.
EncodeValue(v) ==
    LET packed == Flatten([i \in 1..Len(v.shape) |-> Varint(v.shape[i])])
    IN  (IF v.shape = <<>> THEN <<>> ELSE <<10>> \o Varint(Len(packed)) \o packed)
        \o (IF v.dtype = 0 THEN <<>> ELSE <<16>> \o Varint(v.dtype))
        \o (IF v.size_check = 0 THEN <<>> ELSE <<24>> \o Varint(v.size_check))
        \o (IF v.key_check = 0 THEN <<>> ELSE <<32>> \o Varint(v.key_check))
        \o Flatten([i \in 1..Len(v.data) |-> <<42>> \o Varint(Len(v.data[i])) \o v.data[i]])

\* Reads one varint of b at position p: [ok, val, next]. More than four
\* groups do not occur in the values of this model and are refused.
RECURSIVE ReadVarint(_, _, _)
ReadVarint(b, p, depth) ==
    IF p > Len(b) \/ depth > 4 THEN [ok |-> FALSE, val |-> 0, next |-> p]
    ELSE IF b[p] < 128 THEN [ok |-> TRUE, val |-> b[p], next |-> p + 1]
    ELSE LET r == ReadVarint(b, p + 1, depth + 1)
         IN  [ok |-> r.ok, val |-> (b[p] - 128) + 128 * r.val, next |-> r.next]

\* The varints packed in b[p .. e-1]: [ok, vals].
RECURSIVE ReadPacked(_, _, _)
ReadPacked(b, p, e) ==
    IF p >= e THEN [ok |-> p = e, vals |-> <<>>]
    ELSE LET r == ReadVarint(b, p, 1)
         IN  IF ~r.ok \/ r.next > e THEN [ok |-> FALSE, vals |-> <<>>]
             ELSE LET rest == ReadPacked(b, r.next, e)
                  IN  [ok |-> rest.ok, vals |-> <<r.val>> \o rest.vals]

\* Message::decode for Value: merges the fields of b from position p into acc.
RECURSIVE DecodeFrom(_, _, _)
DecodeFrom(b, p, acc) ==
    IF p > Len(b) THEN Ok(acc)
    ELSE
    LET t == ReadVarint(b, p, 1) IN
    IF ~t.ok \/ t.val < 8 THEN Err
    ELSE
    LET field == t.val \div 8
        wire == t.val % 8
        q == t.next
    IN  CASE wire = 0 ->
                LET r == ReadVarint(b, q, 1) IN
                IF ~r.ok \/ field = 5 THEN Err
                ELSE DecodeFrom(b, r.next,
                        CASE field = 1 -> [acc EXCEPT !.shape = Append(@, r.val)]
                          [] field = 2 -> [acc EXCEPT !.dtype = r.val]
                          [] field = 3 -> [acc EXCEPT !.size_check = r.val]
                          [] field = 4 -> [acc EXCEPT !.key_check = r.val]
                          [] OTHER -> acc)
          [] wire = 2 ->
                LET l == ReadVarint(b, q, 1) IN
                IF ~l.ok \/ l.next + l.val - 1 > Len(b) THEN Err
                ELSE
                LET e == l.next + l.val
                    body == SubSeq(b, l.next, e - 1)
                IN  CASE field = 1 ->
                            LET pk == ReadPacked(b, l.next, e) IN
                            IF ~pk.ok THEN Err
                            ELSE DecodeFrom(b, e, [acc EXCEPT !.shape = @ \o pk.vals])
                      [] field = 5 -> DecodeFrom(b, e, [acc EXCEPT !.data = Append(@, body)])
                      [] field \in {2, 3, 4} -> Err
                      [] OTHER -> DecodeFrom(b, e, acc)
          [] wire = 1 -> IF field \in 1..5 \/ q + 7 > Len(b) THEN Err ELSE DecodeFrom(b, q + 8, acc)
          [] wire = 5 -> IF field \in 1..5 \/ q + 3 > Len(b) THEN Err ELSE DecodeFrom(b, q + 4, acc)
          [] OTHER -> Err

DecodeValue(b) == DecodeFrom(b, 1, DefaultValue)

\* ------------------------------------------------------------------ inputs
\* The keys and envelopes the callers pass. 12345 and the first envelope are
\* those of the example (its key_check is the key 12345 and differs from the
\* key 57; its size_check is not the byte length its shape implies); the
\* second envelope is all defaults and encodes to the empty byte string.
KeySet == {57, 12345}

ExampleValue ==
    [shape |-> <<2, 2>>, dtype |-> 1, size_check |-> 16, key_check |-> 12345,
     data |-> << <<1, 2, 3, 4, 5, 6, 7, 8>> >>]

ValueSet == {ExampleValue, DefaultValue}

\* ------------------------------------------------------------------ engine
\* The engine's content: a function from key bytes to value bytes.
EmptyDb == [kb \in {} |-> <<>>]

\* A mutant of DB::get: the engine seeks to the first key not below kb and
\* returns the value found there.
EngineGetSeek(d, kb) ==
    LET from == {x \in DOMAIN d : x = kb \/ LexLess(kb, x)}
    IN  IF from = {} THEN None
        ELSE Some(d[CHOOSE x \in from : \A y \in from \ {x} : LexLess(x, y)])

\* DB::get
EngineGet(d, kb) == IF kb \in DOMAIN d THEN Some(d[kb]) ELSE None

\* A mutant of DB::put: the value is overwritten in place and only the first
\* half of the new bytes gets written; old bytes beyond it stay.
EnginePutPartial(d, kb, vb) ==
    LET half == SubSeq(vb, 1, Len(vb) \div 2)
        old == IF kb \in DOMAIN d THEN d[kb] ELSE <<>>
    IN  [x \in DOMAIN d \cup {kb} |->
            IF x # kb THEN d[x]
            ELSE half \o SubSeq(old, Len(half) + 1, Len(old))]

\* A mutant of DB::put: a key that has a value keeps it.
EnginePutIfAbsent(d, kb, vb) ==
    [x \in DOMAIN d \cup {kb} |-> IF x \in DOMAIN d THEN d[x] ELSE vb]

\* DB::put: the value under kb becomes vb, whole.
EnginePut(d, kb, vb) == [x \in DOMAIN d \cup {kb} |-> IF x = kb THEN vb ELSE d[x]]

\* A mutant of DB::delete: nothing is removed.
EngineDeleteNothing(d, kb) == d

\* A mutant of DB::delete: the engine seeks to the first key not below kb and
\* removes that one.
EngineDeleteSeek(d, kb) ==
    LET from == {x \in DOMAIN d : x = kb \/ LexLess(kb, x)}
    IN  IF from = {} THEN d
        ELSE LET hit == CHOOSE x \in from : \A y \in from \ {x} : LexLess(x, y)
             IN  [x \in DOMAIN d \ {hit} |-> d[x]]

\* A mutant of DB::delete: kb and every key above it are removed, as a range
\* delete without an upper end would.
EngineDeleteFrom(d, kb) == [x \in {y \in DOMAIN d : LexLess(y, kb)} |-> d[x]]

\* DB::delete
EngineDelete(d, kb) == [x \in DOMAIN d \ {kb} |-> d[x]]

\* A mutant of DB::write: only the first key of the batch is deleted.
EngineWriteFirstOnly(d, batch) ==
    IF batch = <<>> THEN d ELSE [x \in DOMAIN d \ {batch[1]} |-> d[x]]

\* DB::write of a WriteBatch of deletes: every key of the batch goes, at once.
EngineWrite(d, batch) == [x \in DOMAIN d \ {batch[i] : i \in 1..Len(batch)} |-> d[x]]

\* A mutant of DB::compact_range: an entry whose value has no bytes is taken
\* for a deletion marker and dropped.
EngineCompactDropsEmpty(d) == [x \in {y \in DOMAIN d : d[y] # <<>>} |-> d[x]]

\* DB::compact_range(None, None): the engine rewrites its files; the entries
\* a read or an iterator sees stay the same.
EngineCompactRange(d) == d

\* The keys of d in the engine's order.
RECURSIVE SortedKeys(_)
SortedKeys(ks) ==
    IF ks = {} THEN <<>>
    ELSE LET m == CHOOSE x \in ks : \A y \in ks \ {x} : LexLess(x, y)
         IN  <<m>> \o SortedKeys(ks \ {m})

\* A mutant of the iterator: it starts at the last key and runs backwards.
IterEntriesFromEnd(d) ==
    LET ks == SortedKeys(DOMAIN d)
    IN  [i \in 1..Len(ks) |->
            [ok |-> TRUE, key |-> ks[Len(ks) + 1 - i], value |-> d[ks[Len(ks) + 1 - i]]]]

\* DB::iterator(IteratorMode::Start) over the view d: the items it yields,
\* one Ok((key, value)) per entry, in key order.
IterEntries(d) ==
    LET ks == SortedKeys(DOMAIN d)
    IN  [i \in 1..Len(ks) |-> [ok |-> TRUE, key |-> ks[i], value |-> d[ks[i]]]]

\* The item an iterator yields when the engine fails during the scan: Err(e),
\* once, after which the iterator ends.
ErrItem == [ok |-> FALSE, key |-> <<>>, value |-> <<>>]

\* An iterator over the view d that fails after n entries.
IterEntriesFailing(d, n) == SubSeq(IterEntries(d), 1, n) \o <<ErrItem>>

\* ------------------------------------------------------- store operations
\* A mutant of get: a key with no entry is an error.
GetMissingIsError(d, k) ==
    LET value_bytes == EngineGet(d, KeyBytes(k))
    IN  IF IsSome(value_bytes)
        THEN LET r == DecodeValue(value_bytes.v)
             IN  IF r.ok THEN Ok(Some(r.val)) ELSE Err
        ELSE Err

\* A mutant of get: bytes that do not decode are reported as no entry.
GetUndecodableIsAbsent(d, k) ==
    LET value_bytes == EngineGet(d, KeyBytes(k))
    IN  IF IsSome(value_bytes)
        THEN LET r == DecodeValue(value_bytes.v)
             IN  IF r.ok THEN Ok(Some(r.val)) ELSE Ok(None)
        ELSE Ok(None)

\* A mutant of get: an envelope whose key_check is not the key is refused.
GetValidating(d, k) ==
    LET value_bytes == EngineGet(d, KeyBytes(k))
    IN  IF IsSome(value_bytes)
        THEN LET r == DecodeValue(value_bytes.v)
             IN  IF r.ok /\ r.val.key_check = k THEN Ok(Some(r.val)) ELSE Err
        ELSE Ok(None)

\* RocksDBStore::get on the content d.
Get(d, k) ==
    LET value_bytes == EngineGet(d, KeyBytes(k))
    IN  IF IsSome(value_bytes)
        THEN LET r == DecodeValue(value_bytes.v)
             IN  IF r.ok THEN Ok(Some(r.val)) ELSE Err
        ELSE Ok(None)

\* RocksDBStore::contains_key on the content d.
ContainsKey(d, k) == Ok(IsSome(EngineGet(d, KeyBytes(k))))

\* The loop of RocksDBStore::len over an iterator's items: `for _ in iter`
\* counts every item, whatever it is.
CountEntries(es) == Len(es)

\* `result?` in the loops of keys, clear and get_db_size: the first Err item
\* ends the operation with that error; otherwise the loop's result r stands.
TryItems(es, r) == IF \E i \in 1..Len(es) : ~es[i].ok THEN Err ELSE Ok(r)

\* A mutant of the loop of keys(): the last entry is left out.
CollectKeysDropLast(es) ==
    [i \in 1..(Len(es) - 1) |-> FromBeBytes(es[i].key)]

\* The loop of RocksDBStore::keys over an iterator's entries: the 8-byte keys,
\* decoded, in the iterator's order.
CollectKeys(es) ==
    LET eight == SelectSeq(es, LAMBDA e : Len(e.key) = 8)
    IN  [i \in 1..Len(eight) |-> FromBeBytes(eight[i].key)]

\* A mutant of the loop of clear(): the last entry is left out of the batch.
CollectBatchSkipLast(es) == [i \in 1..(Len(es) - 1) |-> es[i].key]

\* The loop of RocksDBStore::clear over an iterator's entries: the batch.
CollectBatch(es) == [i \in 1..Len(es) |-> es[i].key]

\* The loop of RocksDBStore::get_db_size over an iterator's entries.
RECURSIVE SumSizes(_)
SumSizes(es) ==
    IF es = <<>> THEN 0 ELSE Len(Head(es).key) + Len(Head(es).value) + SumSizes(Tail(es))

\* len, is_empty, keys and get_db_size run with no other caller on content d.
StoreLen(d) == Ok(CountEntries(IterEntries(d)))
IsEmpty(d) == Ok(CountEntries(IterEntries(d)) = 0)
Keys(d) == TryItems(IterEntries(d), CollectKeys(IterEntries(d)))
GetDbSize(d) == TryItems(IterEntries(d), SumSizes(IterEntries(d)))

\* ------------------------------------------------------------------- state
VARIABLES
    db,       \* the engine's content: key bytes -> value bytes
    pc,       \* per caller: "idle", or the operation whose second engine call is pending
    call,     \* per caller: the locals of the operation in progress
    last,     \* the operation that returned in the latest step, with its result
    nops,     \* the number of operations begun
    shadow,   \* history: per key, the envelope of the latest engine write, if any
    putArgs,  \* history: per key, the envelopes passed to put so far
    aux,      \* history: per caller, what happened since its operation began
    probe     \* the input and the outputs of a conversion applied on its own

vars == <<db, pc, call, last, nops, shadow, putArgs, aux, probe>>

NoCall == [op |-> "none", key |-> 0, value |-> DefaultValue, old |-> None, iter |-> <<>>]

\* before, dbBefore: shadow and db as they were before the returning step;
\* dirty, sawEmpty and failed: the caller's aux when it returned.
NoLast ==
    [op |-> "none", caller |-> 0, key |-> 0, value |-> DefaultValue, ret |-> Err,
     before |-> [k \in KeySet |-> None], dbBefore |-> EmptyDb,
     dirty |-> FALSE, sawEmpty |-> FALSE, failed |-> FALSE]

\* dirty: another caller wrote the operation's key between its read and its
\* write; sawEmpty: the engine was empty at some instant of the operation;
\* failed: an engine call of the operation reported an error.
NoAux == [dirty |-> FALSE, sawEmpty |-> FALSE, failed |-> FALSE]

\* No conversion is being applied on its own.
NoProbe == [stage |-> "none"]

\* No call was made on a key.
NotCalled == [op |-> "none", value |-> DefaultValue]

\* The history of calls per key, kept when the callers are held to pairwise
\* distinct keys: the call op with envelope v on key k is noted.
ProbeAfter(op, k, v) ==
    IF probe.stage = "distinct"
    THEN [probe EXCEPT !.calls[k] = [op |-> op, value |-> v]]
    ELSE probe

Quiet == \A x \in Callers : pc[x] = "idle"

\* What the history records for a key whose bytes no put of this store wrote.
Foreign == [tag |-> "Foreign"]

\* Bytes that are not an encoded Value: a dtype field, then a length-delimited
\* field announcing more bytes than follow.
ForeignBytes == <<16, 1, 10, 3, 1>>

\* The content of a directory that earlier runs wrote as w (per key, the
\* envelope put last and not deleted since, or bytes of another writer).
Written(w) ==
    LET present == {k \in KeySet : w[k] # None}
    IN  [kb \in {KeyBytes(k) : k \in present} |->
            LET k == CHOOSE x \in present : KeyBytes(x) = kb
            IN  IF IsSome(w[k]) THEN EncodeValue(w[k].v) ELSE ForeignBytes]

\* RocksDBStore::new: the engine opens the directory, creating it if it is
\* missing; it holds nothing, or what earlier runs wrote. No call is running.
Init ==
    /\ shadow \in [KeySet -> {None} \cup {Some(v) : v \in ValueSet}]
    /\ db = Written(shadow)
    /\ pc = [c \in Callers |-> "idle"]
    /\ call = [c \in Callers |-> NoCall]
    /\ last = NoLast
    /\ nops = 0
    /\ putArgs = [k \in KeySet |-> IF IsSome(shadow[k]) THEN {shadow[k].v} ELSE {}]
    /\ aux = [c \in Callers |-> NoAux]
    /\ probe = NoProbe

\* The history of the callers after caller c wrote the keys kbs, left the
\* engine as d2 and returned.
AuxAfterWrite(c, kbs, d2) ==
    [x \in Callers |->
        IF x = c THEN NoAux
        ELSE [dirty |-> aux[x].dirty \/ (pc[x] \in {"put", "delete"} /\ KeyBytes(call[x].key) \in kbs),
              sawEmpty |-> aux[x].sawEmpty \/ (pc[x] = "clear" /\ DOMAIN d2 = {}),
              failed |-> aux[x].failed]]

\* An operation begins: its caller is idle and the budget is not used up.
Begins(c) ==
    /\ pc[c] = "idle"
    /\ nops < MaxOps
    /\ nops' = nops + 1

\* The operation op of caller c returns ret in this step.
Returns(c, op, k, v, ret) ==
    /\ last' = [op |-> op, caller |-> c, key |-> k, value |-> v, ret |-> ret,
                before |-> shadow, dbBefore |-> db,
                dirty |-> aux[c].dirty, sawEmpty |-> aux[c].sawEmpty,
                failed |-> aux[c].failed]
    /\ pc' = [pc EXCEPT ![c] = "idle"]
    /\ call' = [call EXCEPT ![c] = NoCall]
    /\ probe' = ProbeAfter(op, k, v)

\* The operation op of caller c returns the error of an engine call that
\* failed in this step.
Fails(c, op, k, v) ==
    /\ last' = [op |-> op, caller |-> c, key |-> k, value |-> v, ret |-> Err,
                before |-> shadow, dbBefore |-> db,
                dirty |-> aux[c].dirty, sawEmpty |-> aux[c].sawEmpty,
                failed |-> TRUE]
    /\ pc' = [pc EXCEPT ![c] = "idle"]
    /\ call' = [call EXCEPT ![c] = NoCall]
    /\ probe' = ProbeAfter(op, k, v)

\* The operation op of caller c made its first engine call and goes on.
Continues(c, op, k, v, old, iter) ==
    /\ last' = NoLast
    /\ pc' = [pc EXCEPT ![c] = op]
    /\ call' = [call EXCEPT ![c] = [op |-> op, key |-> k, value |-> v, old |-> old, iter |-> iter]]
    /\ probe' = ProbeAfter(op, k, v)

\* A mutant of the read in put and delete: the bytes found are not decoded
\* and the key is reported as having had no entry.
ReadOldAbsent(d, k) == Ok(None)

\* A mutant of the read in put and delete: bytes that do not decode are
\* taken for no entry.
ReadOldLenient(d, k) ==
    LET existing == EngineGet(d, KeyBytes(k))
    IN  IF IsSome(existing)
        THEN LET r == DecodeValue(existing.v)
             IN  IF r.ok THEN Ok(Some(r.val)) ELSE Ok(None)
        ELSE Ok(None)

\* The read of the existing value in put and delete, decoded.
ReadOld(d, k) ==
    LET existing == EngineGet(d, KeyBytes(k))
    IN  IF IsSome(existing)
        THEN LET r == DecodeValue(existing.v)
             IN  IF r.ok THEN Ok(Some(r.val)) ELSE Err
        ELSE Ok(None)

\* RocksDBStore::put, up to the read of the existing value.
PutRead(c) ==
    \E k \in KeySet, v \in ValueSet :
        /\ Begins(c)
        /\ LET old == ReadOld(db, k)
           IN  IF old.ok
               THEN Continues(c, "put", k, v, old.val, <<>>)
               ELSE Returns(c, "put", k, v, Err)
        /\ putArgs' = [putArgs EXCEPT ![k] = @ \cup {v}]
        /\ UNCHANGED <<db, shadow, aux>>

\* A mutant of put's return value: the envelope just written.
PutResultNew(c) == Ok(Some(call[c].value))

\* put's return value: the envelope its read found.
PutResult(c) == Ok(call[c].old)

\* RocksDBStore::put, the write of the new value and the return.
PutWrite(c) ==
    /\ pc[c] = "put"
    /\ LET kb == KeyBytes(call[c].key) IN
        /\ db' = EnginePut(db, kb, EncodeValue(call[c].value))
        /\ aux' = AuxAfterWrite(c, {kb}, db')
    /\ shadow' = [shadow EXCEPT ![call[c].key] = Some(call[c].value)]
    /\ Returns(c, "put", call[c].key, call[c].value, PutResult(c))
    /\ UNCHANGED <<nops, putArgs>>

\* A mutant of get: an entry whose bytes do not decode is deleted.
GetCallRepairing(c) ==
    \E k \in KeySet :
        /\ Begins(c)
        /\ Returns(c, "get", k, DefaultValue, Get(db, k))
        /\ db' = IF Get(db, k).ok THEN db ELSE EngineDelete(db, KeyBytes(k))
        /\ UNCHANGED <<shadow, putArgs, aux>>

\* RocksDBStore::get
GetCall(c) ==
    \E k \in KeySet :
        /\ Begins(c)
        /\ Returns(c, "get", k, DefaultValue, Get(db, k))
        /\ UNCHANGED <<db, shadow, putArgs, aux>>

\* RocksDBStore::delete, up to the read of the value.
DeleteRead(c) ==
    \E k \in KeySet :
        /\ Begins(c)
        /\ LET value == ReadOld(db, k)
           IN  IF value.ok
               THEN Continues(c, "delete", k, DefaultValue, value.val, <<>>)
               ELSE Returns(c, "delete", k, DefaultValue, Err)
        /\ UNCHANGED <<db, shadow, putArgs, aux>>

\* A mutant of delete's return value: absent, whatever the read found.
DeleteResultNone(c) == Ok(None)

\* delete's return value: the envelope its read found.
DeleteResult(c) == Ok(call[c].old)

\* RocksDBStore::delete, the delete of the key and the return.
DeleteWrite(c) ==
    /\ pc[c] = "delete"
    /\ LET kb == KeyBytes(call[c].key) IN
        /\ db' = EngineDelete(db, kb)
        /\ aux' = AuxAfterWrite(c, {kb}, db')
    /\ shadow' = [shadow EXCEPT ![call[c].key] = None]
    /\ Returns(c, "delete", call[c].key, DefaultValue, DeleteResult(c))
    /\ UNCHANGED <<nops, putArgs>>

\* RocksDBStore::contains_key
ContainsKeyCall(c) ==
    \E k \in KeySet :
        /\ Begins(c)
        /\ Returns(c, "contains_key", k, DefaultValue, ContainsKey(db, k))
        /\ UNCHANGED <<db, shadow, putArgs, aux>>

\* The creation of the iterator in len, is_empty, keys, clear and
\* get_db_size: the iterator reads the engine's content as of this instant.
OpensIterator(c, op) ==
    /\ Begins(c)
    /\ Continues(c, op, 0, DefaultValue, None, IterEntries(db))
    /\ aux' = [aux EXCEPT ![c] = [dirty |-> FALSE, sawEmpty |-> (DOMAIN db = {}),
                                  failed |-> FALSE]]
    /\ UNCHANGED <<db, shadow, putArgs>>

\* The end of a scan that only reads: the result is returned.
ScanReturns(c, op, ret) ==
    /\ pc[c] = op
    /\ Returns(c, op, 0, DefaultValue, ret)
    /\ aux' = [aux EXCEPT ![c] = NoAux]
    /\ UNCHANGED <<db, nops, shadow, putArgs>>

\* RocksDBStore::len
LenBegin(c) == OpensIterator(c, "len")
LenEnd(c) == ScanReturns(c, "len", Ok(CountEntries(call[c].iter)))

\* RocksDBStore::is_empty
IsEmptyBegin(c) == OpensIterator(c, "is_empty")
IsEmptyEnd(c) == ScanReturns(c, "is_empty", Ok(CountEntries(call[c].iter) = 0))

\* RocksDBStore::keys
KeysBegin(c) == OpensIterator(c, "keys")
KeysEnd(c) == ScanReturns(c, "keys", TryItems(call[c].iter, CollectKeys(call[c].iter)))

\* RocksDBStore::get_db_size
GetDbSizeBegin(c) == OpensIterator(c, "get_db_size")
GetDbSizeEnd(c) ==
    ScanReturns(c, "get_db_size", TryItems(call[c].iter, SumSizes(call[c].iter)))

\* RocksDBStore::clear, the scan that fills the batch.
ClearBegin(c) == OpensIterator(c, "clear")

\* RocksDBStore::clear, the write of the batch and the return; an Err item
\* of the scan is returned before anything is written.
ClearWrite(c) ==
    /\ pc[c] = "clear"
    /\ LET batch == CollectBatch(call[c].iter)
           kbs == {batch[i] : i \in 1..Len(batch)}
       IN  IF TryItems(call[c].iter, batch).ok
           THEN /\ db' = EngineWrite(db, batch)
                /\ aux' = AuxAfterWrite(c, kbs, db')
                /\ shadow' = [k \in KeySet |-> IF KeyBytes(k) \in kbs THEN None ELSE shadow[k]]
                /\ last' = [op |-> "clear", caller |-> c, key |-> 0, value |-> DefaultValue,
                            ret |-> Ok(TRUE), before |-> shadow, dbBefore |-> db,
                            dirty |-> FALSE,
                            sawEmpty |-> aux[c].sawEmpty \/ (DOMAIN db' = {}),
                            failed |-> FALSE]
                /\ pc' = [pc EXCEPT ![c] = "idle"]
                /\ call' = [call EXCEPT ![c] = NoCall]
                /\ probe' = probe
           ELSE /\ Returns(c, "clear", 0, DefaultValue, Err)
                /\ aux' = [aux EXCEPT ![c] = NoAux]
                /\ UNCHANGED <<db, shadow>>
    /\ UNCHANGED <<nops, putArgs>>

\* RocksDBStore::compact: the whole key range is compacted and Ok(()) is
\* returned.
Compact(c) ==
    /\ Begins(c)
    /\ db' = EngineCompactRange(db)
    /\ Returns(c, "compact", 0, DefaultValue, Ok(TRUE))
    /\ UNCHANGED <<shadow, putArgs, aux>>

\* Callers run concurrently: any caller may take its next step.
Next ==
    \E c \in Callers :
        \/ PutRead(c) \/ PutWrite(c)
        \/ GetCall(c)
        \/ DeleteRead(c) \/ DeleteWrite(c)
        \/ ContainsKeyCall(c)
        \/ LenBegin(c) \/ LenEnd(c)
        \/ IsEmptyBegin(c) \/ IsEmptyEnd(c)
        \/ KeysBegin(c) \/ KeysEnd(c)
        \/ GetDbSizeBegin(c) \/ GetDbSizeEnd(c)
        \/ ClearBegin(c) \/ ClearWrite(c)
        \/ Compact(c)

Spec == Init /\ [][Next]_vars

\* One caller at a time: an operation begins only when no other is running.
SeqNext ==
    \E c \in Callers :
        \/ Quiet /\ PutRead(c)
        \/ PutWrite(c)
        \/ Quiet /\ GetCall(c)
        \/ Quiet /\ DeleteRead(c)
        \/ DeleteWrite(c)
        \/ Quiet /\ ContainsKeyCall(c)
        \/ Quiet /\ LenBegin(c)
        \/ LenEnd(c)
        \/ Quiet /\ IsEmptyBegin(c)
        \/ IsEmptyEnd(c)
        \/ Quiet /\ KeysBegin(c)
        \/ KeysEnd(c)
        \/ Quiet /\ GetDbSizeBegin(c)
        \/ GetDbSizeEnd(c)
        \/ Quiet /\ ClearBegin(c)
        \/ ClearWrite(c)
        \/ Quiet /\ Compact(c)

SeqSpec == Init /\ [][SeqNext]_vars

\* ------------------------------------------------- failures and foreign data
\* RocksDBStore::put when db.get reports an error: `?` returns it.
PutReadFails(c) ==
    \E k \in KeySet, v \in ValueSet :
        /\ Begins(c)
        /\ Fails(c, "put", k, v)
        /\ putArgs' = [putArgs EXCEPT ![k] = @ \cup {v}]
        /\ UNCHANGED <<db, shadow, aux>>

\* RocksDBStore::put when db.put reports an error: nothing was written.
PutWriteFails(c) ==
    /\ pc[c] = "put"
    /\ Fails(c, "put", call[c].key, call[c].value)
    /\ aux' = [aux EXCEPT ![c] = NoAux]
    /\ UNCHANGED <<db, nops, shadow, putArgs>>

\* RocksDBStore::get when db.get reports an error.
GetFails(c) ==
    \E k \in KeySet :
        /\ Begins(c)
        /\ Fails(c, "get", k, DefaultValue)
        /\ UNCHANGED <<db, shadow, putArgs, aux>>

\* RocksDBStore::delete when db.get reports an error.
DeleteReadFails(c) ==
    \E k \in KeySet :
        /\ Begins(c)
        /\ Fails(c, "delete", k, DefaultValue)
        /\ UNCHANGED <<db, shadow, putArgs, aux>>

\* RocksDBStore::delete when db.delete reports an error: nothing was removed.
DeleteWriteFails(c) ==
    /\ pc[c] = "delete"
    /\ Fails(c, "delete", call[c].key, DefaultValue)
    /\ aux' = [aux EXCEPT ![c] = NoAux]
    /\ UNCHANGED <<db, nops, shadow, putArgs>>

\* RocksDBStore::contains_key when db.get reports an error.
ContainsKeyFails(c) ==
    \E k \in KeySet :
        /\ Begins(c)
        /\ Fails(c, "contains_key", k, DefaultValue)
        /\ UNCHANGED <<db, shadow, putArgs, aux>>

\* The operations that scan with an iterator.
ScanOps == {"len", "is_empty", "keys", "get_db_size", "clear"}

\* The creation of the iterator in a scan during which the engine fails:
\* the iterator yields some of the entries, then an Err item.
IteratorFails(c) ==
    \E op \in ScanOps, n \in 0..Cardinality(DOMAIN db) :
        /\ Begins(c)
        /\ Continues(c, op, 0, DefaultValue, None, IterEntriesFailing(db, n))
        /\ aux' = [aux EXCEPT ![c] = [dirty |-> FALSE, sawEmpty |-> (DOMAIN db = {}),
                                      failed |-> TRUE]]
        /\ UNCHANGED <<db, shadow, putArgs>>

\* RocksDBStore::clear when db.write reports an error: nothing was removed.
ClearWriteFails(c) ==
    /\ pc[c] = "clear"
    /\ TryItems(call[c].iter, TRUE).ok
    /\ Fails(c, "clear", 0, DefaultValue)
    /\ aux' = [aux EXCEPT ![c] = NoAux]
    /\ UNCHANGED <<db, nops, shadow, putArgs>>

\* RocksDBStore::new on a directory that may also hold, under a key, bytes
\* that no put of this store wrote.
FaultInit ==
    /\ shadow \in [KeySet -> {None, Foreign} \cup {Some(v) : v \in ValueSet}]
    /\ db = Written(shadow)
    /\ pc = [c \in Callers |-> "idle"]
    /\ call = [c \in Callers |-> NoCall]
    /\ last = NoLast
    /\ nops = 0
    /\ putArgs = [k \in KeySet |-> IF IsSome(shadow[k]) THEN {shadow[k].v} ELSE {}]
    /\ aux = [c \in Callers |-> NoAux]
    /\ probe = NoProbe

\* One caller at a time, and any engine call may report an error.
FaultNext ==
    \E c \in Callers :
        \/ Quiet /\ PutRead(c)
        \/ Quiet /\ PutReadFails(c)
        \/ PutWrite(c)
        \/ PutWriteFails(c)
        \/ Quiet /\ GetCall(c)
        \/ Quiet /\ GetFails(c)
        \/ Quiet /\ DeleteRead(c)
        \/ Quiet /\ DeleteReadFails(c)
        \/ DeleteWrite(c)
        \/ DeleteWriteFails(c)
        \/ Quiet /\ ContainsKeyCall(c)
        \/ Quiet /\ ContainsKeyFails(c)
        \/ Quiet /\ LenBegin(c)
        \/ LenEnd(c)
        \/ Quiet /\ IsEmptyBegin(c)
        \/ IsEmptyEnd(c)
        \/ Quiet /\ KeysBegin(c)
        \/ KeysEnd(c)
        \/ Quiet /\ GetDbSizeBegin(c)
        \/ GetDbSizeEnd(c)
        \/ Quiet /\ ClearBegin(c)
        \/ ClearWrite(c)
        \/ ClearWriteFails(c)
        \/ Quiet /\ IteratorFails(c)
        \/ Quiet /\ Compact(c)

FaultSpec == FaultInit /\ [][FaultNext]_vars

\* ------------------------------------------------- the codec applied alone
\* The sequences over S of length at most n.
SeqsUpTo(S, n) == UNION {[1..m -> S] : m \in 0..n}

\* Dimensions (one needs a two-byte varint), dtype tags (0 is the default, 9
\* is not assigned to any element type), integrity values (the largest fills
\* four varint groups) and data chunks the callers may put in an envelope.
ShapeDims == {0, 2, 300}
DtypeTags == {0, 1, 2, 9}
CheckValues == {0, 16, 268435455}
DataChunks == {<<>>, <<255, 0>>}

Envelopes ==
    [shape : SeqsUpTo(ShapeDims, MaxLen), dtype : DtypeTags, size_check : CheckValues,
     key_check : CheckValues, data : SeqsUpTo(DataChunks, MaxLen)]

\* No store operation is running or has run, on an empty store.
StoreUntouched ==
    /\ db = EmptyDb
    /\ pc = [c \in Callers |-> "idle"]
    /\ call = [c \in Callers |-> NoCall]
    /\ last = NoLast
    /\ nops = 0
    /\ shadow = [k \in KeySet |-> None]
    /\ putArgs = [k \in KeySet |-> {}]
    /\ aux = [c \in Callers |-> NoAux]

\* A caller has built an envelope.
CodecInit ==
    /\ StoreUntouched
    /\ probe \in {[stage |-> "value", value |-> v, bytes |-> <<>>, decoded |-> Err] :
                    v \in Envelopes}

\* value.encode_to_vec() as put calls it.
EncodeStep ==
    /\ probe.stage = "value"
    /\ probe' = [probe EXCEPT !.stage = "bytes", !.bytes = EncodeValue(probe.value)]
    /\ UNCHANGED <<db, pc, call, last, nops, shadow, putArgs, aux>>

\* Value::decode(bytes) as get calls it.
DecodeStep ==
    /\ probe.stage = "bytes"
    /\ probe' = [probe EXCEPT !.stage = "decoded", !.decoded = DecodeValue(probe.bytes)]
    /\ UNCHANGED <<db, pc, call, last, nops, shadow, putArgs, aux>>

CodecNext == EncodeStep \/ DecodeStep

CodecSpec == CodecInit /\ [][CodecNext]_vars

\* ---------------------------------------------- the key encoding applied alone
\* A 64-bit key as four 16-bit limbs, most significant first (the model's
\* integers end below 2^31).
U64ToBeBytes(a) == BeBytes(a[1], 2) \o BeBytes(a[2], 2) \o BeBytes(a[3], 2) \o BeBytes(a[4], 2)

\* u64::from_be_bytes on eight bytes, as limbs.
U64FromBeBytes(b) ==
    <<FromBeBytes(SubSeq(b, 1, 2)), FromBeBytes(SubSeq(b, 3, 4)),
      FromBeBytes(SubSeq(b, 5, 6)), FromBeBytes(SubSeq(b, 7, 8))>>

\* a < b as 64-bit unsigned numbers.
U64Less(a, b) == \E i \in 1..4 : a[i] < b[i] /\ \A j \in 1..(i - 1) : a[j] = b[j]

\* The keys below 2^31, and their value as an integer of the model.
IsSmall(a) == a[1] = 0 /\ a[2] = 0 /\ a[3] < 32768
AsInt(a) == a[3] * 65536 + a[4]

\* Keys a caller may pass: 0, 1, 57, 255, 256, 12345, 65536, 2^31 - 1,
\* 2^32 - 1, 2^32, 2^48 + 1, 2^56, 2^63 and 2^64 - 1.
U64Samples ==
    {<<0, 0, 0, 0>>, <<0, 0, 0, 1>>, <<0, 0, 0, 57>>, <<0, 0, 0, 255>>, <<0, 0, 0, 256>>,
     <<0, 0, 0, 12345>>, <<0, 0, 1, 0>>, <<0, 0, 32767, 65535>>, <<0, 0, 65535, 65535>>,
     <<0, 1, 0, 0>>, <<1, 0, 0, 1>>, <<256, 0, 0, 0>>, <<32768, 0, 0, 0>>,
     <<65535, 65535, 65535, 65535>>}

\* Callers hold two keys.
KeyInit ==
    /\ StoreUntouched
    /\ probe \in {[stage |-> "keys", a |-> a, b |-> b, ea |-> <<>>, eb |-> <<>>,
                    da |-> <<>>] : a \in U64Samples, b \in U64Samples}

\* key.to_be_bytes() on both keys.
EncodeKeys ==
    /\ probe.stage = "keys"
    /\ probe' = [probe EXCEPT !.stage = "encoded", !.ea = U64ToBeBytes(probe.a),
                                !.eb = U64ToBeBytes(probe.b)]
    /\ UNCHANGED <<db, pc, call, last, nops, shadow, putArgs, aux>>

\* u64::from_be_bytes on the bytes of the first key, as keys() does.
DecodeKey ==
    /\ probe.stage = "encoded"
    /\ probe' = [probe EXCEPT !.stage = "decoded", !.da = U64FromBeBytes(probe.ea)]
    /\ UNCHANGED <<db, pc, call, last, nops, shadow, putArgs, aux>>

KeyNext == EncodeKeys \/ DecodeKey

KeySpec == KeyInit /\ [][KeyNext]_vars

\* ------------------------------------------------- instances on one path
\* A mutant of DB::open: the directory is emptied when it is opened.
EngineOpenFresh(d) == EmptyDb

\* DB::open with create_if_missing(true) on a directory holding d: a missing
\* directory is created (d is empty), an existing one is opened as it is.
EngineOpen(d) == d

\* RocksDBStore::new on a path where no directory exists: the first store
\* instance; no operation was called.
ReopenInit ==
    /\ StoreUntouched
    /\ probe = [stage |-> "instance", number |-> 1, inherited |-> EmptyDb, at |-> 0]

\* The store instance is dropped when no call is running, and
\* RocksDBStore::new is called on the same path, as KVStore::default does
\* with its fixed path: inherited is what the directory held, at the number
\* of operations begun through earlier instances.
Reopen ==
    /\ Quiet
    /\ probe.stage = "instance"
    /\ nops > probe.at
    /\ db' = EngineOpen(db)
    /\ probe' = [stage |-> "instance", number |-> probe.number + 1, inherited |-> db,
                 at |-> nops]
    /\ last' = NoLast
    /\ UNCHANGED <<pc, call, nops, shadow, putArgs, aux>>

\* One caller at a time on a store that starts on a new path and may be
\* dropped and constructed again on it.
ReopenNext ==
    \/ \E c \in Callers :
        \/ Quiet /\ PutRead(c)
        \/ PutWrite(c)
        \/ Quiet /\ GetCall(c)
        \/ Quiet /\ DeleteRead(c)
        \/ DeleteWrite(c)
        \/ Quiet /\ ContainsKeyCall(c)
        \/ Quiet /\ LenBegin(c)
        \/ LenEnd(c)
        \/ Quiet /\ IsEmptyBegin(c)
        \/ IsEmptyEnd(c)
        \/ Quiet /\ KeysBegin(c)
        \/ KeysEnd(c)
        \/ Quiet /\ GetDbSizeBegin(c)
        \/ GetDbSizeEnd(c)
        \/ Quiet /\ ClearBegin(c)
        \/ ClearWrite(c)
        \/ Quiet /\ Compact(c)
    \/ Reopen

ReopenSpec == ReopenInit /\ [][ReopenNext]_vars

\* ------------------------------------------------ callers on distinct keys
\* RocksDBStore::new, as Init; the history notes the content found and that
\* no call was made yet.
DistinctInit ==
    /\ shadow \in [KeySet -> {None} \cup {Some(v) : v \in ValueSet}]
    /\ db = Written(shadow)
    /\ pc = [c \in Callers |-> "idle"]
    /\ call = [c \in Callers |-> NoCall]
    /\ last = NoLast
    /\ nops = 0
    /\ putArgs = [k \in KeySet |-> IF IsSome(shadow[k]) THEN {shadow[k].v} ELSE {}]
    /\ aux = [c \in Callers |-> NoAux]
    /\ probe = [stage |-> "distinct", initial |-> shadow, calls |-> [k \in KeySet |-> NotCalled]]

\* Callers run put, get and delete concurrently, each call on a key on which
\* no call was made before.
DistinctNext ==
    \E c \in Callers :
        \/ PutRead(c) /\ probe.calls[call'[c].key] = NotCalled
        \/ PutWrite(c)
        \/ GetCall(c) /\ probe.calls[last'.key] = NotCalled
        \/ DeleteRead(c) /\ probe.calls[call'[c].key] = NotCalled
        \/ DeleteWrite(c)

DistinctSpec == DistinctInit /\ [][DistinctNext]_vars

\* ------------------------------------------------------------ gRPC handlers
\* Ok(Response::new(body)) and Err(Status::internal("Storage error")).
GrpcOk(body) == [code |-> "ok", status_message |-> "", body |-> Some(body)]
GrpcInternal == [code |-> "internal", status_message |-> "Storage error", body |-> None]

\* A mutant of the Get handler: a key with no entry is answered with a
\* not-found status.
GrpcGetNotFoundStatus(key, res) ==
    IF ~res.ok THEN GrpcInternal
    ELSE IF ~IsSome(res.val)
    THEN [code |-> "not_found", status_message |-> "Value not found", body |-> None]
    ELSE GrpcOk([key |-> key, value |-> res.val, success |-> TRUE,
                 message |-> "Value retrieved successfully"])

\* KvStoreGrpcService::get, given the result res of store.get(key).
GrpcGet(key, res) ==
    IF ~res.ok THEN GrpcInternal
    ELSE LET value == res.val
             success == IsSome(value)
             message == IF IsSome(value) THEN "Value retrieved successfully"
                        ELSE "Value not found"
         IN  GrpcOk([key |-> key, value |-> value, success |-> success, message |-> message])

\* KvStoreGrpcService::delete, given the result res of store.delete(key).
GrpcDelete(key, res) ==
    IF ~res.ok THEN GrpcInternal
    ELSE LET deleted == res.val
             success == IsSome(deleted)
             message == IF IsSome(deleted) THEN "Value deleted successfully"
                        ELSE "Value not found"
         IN  GrpcOk([key |-> key, success |-> success, message |-> message])

\* A mutant of the Health handler: the status tells whether every stored
\* value decodes.
HealthResponseProbing ==
    [status |-> IF \A kb \in DOMAIN db : DecodeValue(db[kb]).ok THEN "healthy" ELSE "degraded",
     service |-> "rust-kv-store"]

\* The body of the Health response.
HealthResponse == [status |-> "healthy", service |-> "rust-kv-store"]

\* KvStoreGrpcService::health: answers without calling the store.
Health(c) ==
    /\ pc[c] = "idle"
    /\ last' = [NoLast EXCEPT !.op = "health", !.caller = c, !.ret = Ok(HealthResponse),
                               !.before = shadow, !.dbBefore = db]
    /\ UNCHANGED <<db, pc, call, nops, shadow, putArgs, aux, probe>>

\* The handlers of one service run concurrently on the shared store: Put,
\* Get, Delete, List and Health.
GrpcNext ==
    \E c \in Callers :
        \/ PutRead(c) \/ PutWrite(c)
        \/ GetCall(c)
        \/ DeleteRead(c) \/ DeleteWrite(c)
        \/ KeysBegin(c) \/ KeysEnd(c)
        \/ Health(c)

GrpcSpec == FaultInit /\ [][GrpcNext]_vars

\* ------------------------------------------------------------------ claims
\* The keys that hold an envelope according to the history w.
Present(w) == {k \in KeySet : IsSome(w[k])}

\* The elements of a sequence.
Range(q) == {q[i] : i \in 1..Len(q)}

\* C1. Put-then-get. With one caller at a time, once put(k, v) has written,
\* get(k) returns Some(v), the same envelope field for field, in every state
\* until the next put(k, _), delete(k) or clear() writes: both the get that
\* would run now and the get call that returned in the latest step.
C1_PutThenGet ==
    /\ \A k \in KeySet : IsSome(shadow[k]) => Get(db, k) = Ok(shadow[k])
    /\ (last.op = "get" /\ IsSome(shadow[last.key])) => last.ret = Ok(shadow[last.key])
    /\ (last.op = "put" /\ last.ret.ok) => Get(db, last.key) = Ok(Some(last.value))

\* A get call returned the example envelope, which a put of this run stored
\* over the default envelope under a key that is not its key_check.
C1_Witness ==
    /\ last.op = "get"
    /\ last.key = 57
    /\ last.ret = Ok(Some(ExampleValue))
    /\ putArgs[57] = ValueSet

\* C2. Replace semantics. With one caller at a time, a put on a key holding
\* v1 returns Some(v1), a put on a key with no entry returns None, a get
\* after the put returns the new envelope, and the key has exactly one entry.
C2_ReplaceSemantics ==
    (last.op = "put") =>
        /\ last.ret = Ok(last.before[last.key])
        /\ Get(db, last.key) = Ok(Some(last.value))
        /\ Cardinality({i \in DOMAIN IterEntries(db) :
                            IterEntries(db)[i].key = KeyBytes(last.key)}) = 1
        /\ Keys(db).ok
        /\ Cardinality({i \in DOMAIN Keys(db).val : Keys(db).val[i] = last.key}) = 1

\* A put replaced the example envelope by another one and returned it.
C2_Witness ==
    /\ last.op = "put"
    /\ last.ret = Ok(Some(ExampleValue))
    /\ last.value # ExampleValue

\* C3. Delete returns what it removed. With one caller at a time, delete(k)
\* on a key holding v returns Some(v); then, and in every state where k holds
\* nothing, get(k) is None, contains_key(k) is false and keys() lacks k.
C3_DeleteReturnsRemoved ==
    /\ (last.op = "delete" /\ IsSome(last.before[last.key])) =>
            /\ last.ret = Ok(last.before[last.key])
            /\ shadow[last.key] = None
    /\ \A k \in KeySet :
            shadow[k] = None =>
                /\ Get(db, k) = Ok(None)
                /\ ContainsKey(db, k) = Ok(FALSE)
                /\ Keys(db).ok /\ k \notin Range(Keys(db).val)
    /\ (last.op = "get" /\ shadow[last.key] = None) => last.ret = Ok(None)
    /\ (last.op = "contains_key") => last.ret = Ok(IsSome(shadow[last.key]))

\* A delete removed the example envelope and returned it.
C3_Witness ==
    /\ last.op = "delete"
    /\ last.ret = Ok(Some(ExampleValue))
    /\ Get(db, last.key) = Ok(None)

\* C4. Delete-absent idempotence. A delete(k) on a key with no entry returns
\* None without error and leaves len() and the value of every key as they
\* were, however often it is repeated.
C4_DeleteAbsent ==
    (last.op = "delete" /\ last.before[last.key] = None) =>
        /\ last.ret = Ok(None)
        /\ StoreLen(db) = StoreLen(last.dbBefore)
        /\ \A k \in KeySet : Get(db, k) = Get(last.dbBefore, k)

\* A delete found no entry under its key while the other key held one.
C4_Witness ==
    /\ last.op = "delete"
    /\ last.before[last.key] = None
    /\ \E k \in KeySet : IsSome(last.before[k])

\* C5. Enumeration completeness. With one caller at a time, keys() returns
\* exactly the keys for which get is present, each once, and len() returns
\* their number: the number of distinct keys that hold an envelope.
C5_EnumerationComplete ==
    LET got == {k \in KeySet : Get(db, k).ok /\ IsSome(Get(db, k).val)} IN
    /\ (last.op = "keys") =>
            /\ last.ret.ok
            /\ Range(last.ret.val) = got
            /\ Len(last.ret.val) = Cardinality(got)
            /\ got = Present(shadow)
    /\ (last.op = "len") =>
            /\ last.ret = Ok(Cardinality(got))
            /\ last.ret = Ok(Cardinality(Present(shadow)))

\* keys() returned both keys of a store holding two entries.
C5_Witness ==
    /\ last.op = "keys"
    /\ last.ret.ok
    /\ Len(last.ret.val) = 2

\* C6. Clear empties the store. With one caller at a time, after clear()
\* returns, len() is 0, is_empty() is true, keys() is empty and get(k) is
\* None for every key present before the call.
C6_ClearEmpties ==
    (last.op = "clear") =>
        /\ last.ret.ok
        /\ StoreLen(db) = Ok(0)
        /\ IsEmpty(db) = Ok(TRUE)
        /\ Keys(db).ok /\ Len(Keys(db).val) = 0
        /\ \A k \in Present(last.before) : Get(db, k) = Ok(None)

\* clear() returned from a store that held two entries.
C6_Witness ==
    /\ last.op = "clear"
    /\ Cardinality(Present(last.before)) = 2

\* C7. Clear is all-or-nothing. In every interleaving, the step in which a
\* clear() writes removes every key of its batch at once and changes no other
\* entry, and no other step of that caller changes the engine; so no state
\* of the engine, and no read of it, has only part of the batch removed by
\* that clear().
C7_ClearAllOrNothing ==
    [][\A c \in Callers :
          (pc[c] = "clear") =>
              LET batch == Range(CollectBatch(call[c].iter)) IN
              IF pc'[c] = "idle"
              THEN /\ batch \cap DOMAIN db' = {}
                   /\ DOMAIN db' = DOMAIN db \ batch
                   /\ \A kb \in DOMAIN db' : db'[kb] = db[kb]
              ELSE call'[c] = call[c]]_vars

\* A clear() removed two entries in one step while another caller had an
\* operation in progress.
C7_Witness ==
    /\ last.op = "clear"
    /\ Cardinality(DOMAIN last.dbBefore) = 2
    /\ DOMAIN db = {}
    /\ \E x \in Callers : pc[x] # "idle"

\* C8. Clear yields an empty checkpoint under concurrency: at some instant
\* of every clear() call, from the creation of its iterator to its return,
\* the engine holds no entry.
C8_ClearReachesEmpty == (last.op = "clear") => last.sawEmpty

\* C9. No torn values. In every interleaving, a get(k) returns absent or one
\* whole envelope that was passed to some put(k, _), never an error and
\* never bytes of two envelopes.
C9_NoTornValue ==
    (last.op = "get") =>
        \/ last.ret = Ok(None)
        \/ /\ last.ret.ok
           /\ IsSome(last.ret.val)
           /\ last.ret.val.v \in putArgs[last.key]

\* A get returned an envelope while another caller was between the read and
\* the write of a put of a different envelope to the same key.
C9_Witness ==
    /\ last.op = "get"
    /\ last.ret.ok
    /\ IsSome(last.ret.val)
    /\ \E x \in Callers :
            /\ pc[x] = "put"
            /\ call[x].key = last.key
            /\ call[x].value # last.ret.val.v

\* C10 as stated. In every interleaving a put returns the value its own
\* write replaced, and absent exactly when its write created the entry.
C10_PutReportsReplaced ==
    (last.op = "put") => last.ret = Ok(last.before[last.key])

\* C10 as amended. A put returns the value its read found; when no other
\* caller wrote the key between that read and the put's write, this is the
\* value its write replaced, and it is absent exactly when the write created
\* the entry.
C10_PutReportsReadValue ==
    (last.op = "put" /\ ~last.dirty) => last.ret = Ok(last.before[last.key])

\* A put returned while another caller was between the read and the write of
\* a put to the same key.
C10_Witness ==
    /\ last.op = "put"
    /\ ~last.dirty
    /\ \E x \in Callers : pc[x] = "put" /\ call[x].key = last.key

\* C11 as stated. In every interleaving a delete returns the value its own
\* removal destroyed, and absent only if its removal destroyed nothing.
C11_DeleteReportsDestroyed ==
    (last.op = "delete") => last.ret = Ok(last.before[last.key])

\* C11 as amended. A delete returns the value its read found; when no other
\* caller wrote the key between that read and the delete's removal, this is
\* the value the removal destroyed, and it is absent only if the removal
\* destroyed nothing.
C11_DeleteReportsReadValue ==
    (last.op = "delete" /\ ~last.dirty) => last.ret = Ok(last.before[last.key])

\* A delete removed an envelope and returned it while another caller was
\* between the read and the write of a put to the same key.
C11_Witness ==
    /\ last.op = "delete"
    /\ ~last.dirty
    /\ IsSome(last.ret.val)
    /\ \E x \in Callers : pc[x] = "put" /\ call[x].key = last.key

\* The engine's entry under the key of the latest returned operation, as it
\* was before the returning step.
HadBytes == EngineGet(last.dbBefore, KeyBytes(last.key))

\* C12. Not-found is not an error. In every reachable state, also of a store
\* holding foreign bytes under another key, a key with no entry makes get
\* return Ok(None), the read of delete find Ok(None) and contains_key return
\* Ok(false); and a get, delete or contains_key call on such a key whose
\* engine calls did not fail returned exactly that.
C12_NotFoundNotError ==
    /\ \A k \in KeySet :
            EngineGet(db, KeyBytes(k)) = None =>
                /\ Get(db, k) = Ok(None)
                /\ ReadOld(db, k) = Ok(None)
                /\ ContainsKey(db, k) = Ok(FALSE)
    /\ (last.op \in {"get", "delete"} /\ ~last.failed /\ HadBytes = None) =>
            last.ret = Ok(None)
    /\ (last.op = "contains_key" /\ ~last.failed /\ HadBytes = None) =>
            last.ret = Ok(FALSE)

\* A get found no entry under its key in a store that holds foreign bytes
\* under the other key, and returned Ok(None).
C12_Witness ==
    /\ last.op = "get"
    /\ last.ret = Ok(None)
    /\ \E k \in KeySet : last.before[k] = Foreign

\* C13. Decode failure is surfaced. Whenever the bytes under a key do not
\* decode, get on that key is an error, and a get call on such a key
\* returned an error: not absent, and no envelope.
C13_DecodeFailureSurfaced ==
    /\ \A k \in KeySet :
            (KeyBytes(k) \in DOMAIN db /\ ~DecodeValue(db[KeyBytes(k)]).ok) =>
                Get(db, k) = Err
    /\ (last.op = "get" /\ IsSome(HadBytes) /\ ~DecodeValue(HadBytes.v).ok) =>
            last.ret = Err

\* A get on a key holding foreign bytes returned an error though no engine
\* call failed.
C13_Witness ==
    /\ last.op = "get"
    /\ last.before[last.key] = Foreign
    /\ ~last.failed
    /\ last.ret = Err

\* C14. Engine failures propagate. With one caller at a time, an operation
\* during which an engine call reported an error returns a failure and leaves
\* the engine's entries as they were before the call.
C14_EngineFailurePropagates ==
    last.failed => (~last.ret.ok /\ db = last.dbBefore)

\* C15. Envelope round-trip. Decoding the bytes that encoding an envelope
\* produced yields Ok of an envelope equal to it, field for field, for every
\* envelope: empty and non-empty shape, any dtype tag, any size_check and
\* key_check, no data, empty chunks and non-empty chunks.
C15_EnvelopeRoundTrip ==
    (probe.stage = "decoded") => probe.decoded = Ok(probe.value)

\* An envelope with an empty shape, an unassigned dtype tag and an empty data
\* chunk before a non-empty one was encoded and decoded.
C15_Witness ==
    /\ probe.stage = "decoded"
    /\ probe.value.shape = <<>>
    /\ probe.value.dtype = 9
    /\ probe.value.data = << <<>>, <<255, 0>> >>
    /\ probe.bytes # <<>>

\* C16. Integrity fields are carried, never validated or rewritten. With one
\* caller at a time, every put succeeds, also of an envelope whose key_check
\* is not the key or whose size_check is not what its shape implies, and get
\* then returns the envelope with key_check and size_check as supplied; a get
\* call returns these fields as the latest put supplied them, so key_check
\* is the key whenever the writer set it so.
C16_IntegrityFieldsCarried ==
    /\ (last.op = "put") =>
            /\ last.ret.ok
            /\ LET g == Get(db, last.key) IN
                /\ g.ok /\ IsSome(g.val)
                /\ g.val.v.key_check = last.value.key_check
                /\ g.val.v.size_check = last.value.size_check
    /\ (last.op = "get" /\ IsSome(shadow[last.key])) =>
            /\ last.ret.ok /\ IsSome(last.ret.val)
            /\ last.ret.val.v.key_check = shadow[last.key].v.key_check
            /\ last.ret.val.v.size_check = shadow[last.key].v.size_check
            /\ (shadow[last.key].v.key_check = last.key) =>
                    last.ret.val.v.key_check = last.key

\* A put under key 57 of an envelope with key_check 12345 and size_check 16
\* for four 8-byte elements succeeded, and the store holds it as supplied.
C16_Witness ==
    /\ last.op = "put"
    /\ last.key = 57
    /\ last.value.key_check = 12345
    /\ last.value.shape = <<2, 2>> /\ last.value.size_check = 16
    /\ last.ret.ok
    /\ Get(db, 57) = Ok(Some(last.value))

\* C17. Key encoding preserves order and identity. For 64-bit keys a and b,
\* to_be_bytes gives eight bytes with enc(a) < enc(b) byte-wise exactly when
\* a < b, enc(a) = enc(b) exactly when a = b, and from_be_bytes(enc(a)) = a;
\* for keys below 2^31 the same holds of KeyBytes and FromBeBytes with the
\* order of the integers.
C17_KeyEncodingOrder ==
    (probe.stage = "decoded") =>
        /\ Len(probe.ea) = 8
        /\ LexLess(probe.ea, probe.eb) <=> U64Less(probe.a, probe.b)
        /\ (probe.ea = probe.eb) <=> (probe.a = probe.b)
        /\ probe.da = probe.a
        /\ IsSmall(probe.a) =>
                /\ probe.ea = KeyBytes(AsInt(probe.a))
                /\ FromBeBytes(probe.ea) = AsInt(probe.a)
        /\ (IsSmall(probe.a) /\ IsSmall(probe.b)) =>
                (LexLess(probe.ea, probe.eb) <=> AsInt(probe.a) < AsInt(probe.b))

\* The keys 256 and 2^63 were encoded, and the first decoded: the smaller
\* key has the larger low-order bytes.
C17_Witness ==
    /\ probe.stage = "decoded"
    /\ probe.a = <<0, 0, 0, 256>>
    /\ probe.b = <<32768, 0, 0, 0>>
    /\ LexLess(probe.ea, probe.eb)

\* The response of the Get or Delete handler whose store call returned in
\* the latest step.
LastResponse ==
    IF last.op = "get" THEN GrpcGet(last.key, last.ret) ELSE GrpcDelete(last.key, last.ret)

\* C18. gRPC outcome mapping. A Get or Delete whose key had no entry is
\* answered with a normal response, success = false and, for Get, no value;
\* one whose key held an envelope with success = true and, for Get, that
\* envelope; one whose store call failed, because an engine call failed or
\* the stored bytes do not decode, with an internal-error status and no body.
C18_GrpcOutcomeMapping ==
    (last.op \in {"get", "delete"}) =>
        LET undecodable == IsSome(HadBytes) /\ ~DecodeValue(HadBytes.v).ok IN
        /\ (last.failed \/ undecodable) =>
                /\ LastResponse.code = "internal"
                /\ LastResponse.body = None
        /\ (~last.failed /\ HadBytes = None) =>
                /\ LastResponse.code = "ok"
                /\ IsSome(LastResponse.body)
                /\ LastResponse.body.v.success = FALSE
                /\ (last.op = "get") => LastResponse.body.v.value = None
        /\ (~last.failed /\ IsSome(HadBytes) /\ ~undecodable) =>
                /\ LastResponse.code = "ok"
                /\ IsSome(LastResponse.body)
                /\ LastResponse.body.v.success = TRUE
                /\ (last.op = "get") =>
                        LastResponse.body.v.value = Some(DecodeValue(HadBytes.v).val)

\* A Get for a key with no entry, the second operation on a store that
\* holds foreign bytes under the other key, was answered with success = false.
C18_Witness ==
    /\ last.op = "get"
    /\ ~last.failed
    /\ HadBytes = None
    /\ LastResponse.code = "ok"
    /\ \E k \in KeySet : shadow[k] = Foreign
    /\ nops = 2

\* C19. Health is a constant liveness signal. In every state of the store
\* and of the other requests, a Health request is answered "healthy" and
\* leaves the engine's content as it was.
C19_HealthConstant ==
    (last.op = "health") =>
        /\ last.ret = Ok([status |-> "healthy", service |-> "rust-kv-store"])
        /\ db = last.dbBefore
        /\ shadow = last.before

\* Health was answered while the store held foreign bytes and another
\* caller was between the read and the write of a put.
C19_Witness ==
    /\ last.op = "health"
    /\ last.ret.val.status = "healthy"
    /\ \E k \in KeySet : shadow[k] = Foreign
    /\ \E x \in Callers : pc[x] = "put"

\* The operations that only look up.
LookupOps == {"get", "contains_key", "keys", "len", "is_empty", "get_db_size"}

\* C20. Lookups have no side effect. Every step of get, contains_key, keys,
\* len, is_empty and get_db_size, the creation of the iterator as well as
\* the return, with a value, with absent or with an error, leaves the
\* engine's keys and values as they were.
C20_LookupsNoSideEffect ==
    [][(\/ last'.op \in LookupOps
        \/ \E c \in Callers : pc[c] = "idle" /\ pc'[c] \in LookupOps)
            => db' = db]_vars

\* A lookup returned an error from a store that holds an entry.
C20_Witness ==
    /\ last.op \in LookupOps
    /\ ~last.ret.ok
    /\ db = last.dbBefore
    /\ DOMAIN db # {}

\* C21. Compaction does not change logical content. In every state of the
\* store, also one holding foreign bytes, get(k) for every key, keys(),
\* len() and get_db_size() give after compact() what they gave immediately
\* before it.
C21_CompactKeepsContent ==
    (last.op = "compact") =>
        /\ last.ret.ok
        /\ \A k \in KeySet : Get(db, k) = Get(last.dbBefore, k)
        /\ Keys(db) = Keys(last.dbBefore)
        /\ StoreLen(db) = StoreLen(last.dbBefore)
        /\ GetDbSize(db) = GetDbSize(last.dbBefore)

\* compact() returned on a store holding the all-default envelope, whose
\* encoding has no bytes, under one key and foreign bytes under the other.
C21_Witness ==
    /\ last.op = "compact"
    /\ \E k \in KeySet : last.before[k] = Some(DefaultValue)
    /\ \E k \in KeySet : last.before[k] = Foreign
    /\ StoreLen(db) = Ok(2)

\* The operation that returned in the latest step was the first one begun
\* through a store instance that is not the first on its path.
FirstOfLaterInstance ==
    /\ probe.stage = "instance"
    /\ probe.number > 1
    /\ nops = probe.at + 1

\* C22 as stated. No entry outlives the store instance it was put through:
\* a get or keys call that is the first operation of an instance constructed
\* on the path of a dropped one, through which so far nothing was put,
\* returns no entry.
C22_NoEntryOutlivesInstance ==
    /\ (FirstOfLaterInstance /\ last.op = "get") => last.ret = Ok(None)
    /\ (FirstOfLaterInstance /\ last.op = "keys") => last.ret = Ok(<<>>)

\* C22 as amended. Entries live in the directory, not in the instance: the
\* first instance on a new path starts empty, and the first get or keys call
\* of an instance constructed on the path of a dropped one returns exactly
\* what the directory held when it was opened.
C22_EntriesLiveInDirectory ==
    /\ (probe.stage = "instance" /\ probe.number = 1 /\ nops = 0) => db = EmptyDb
    /\ (FirstOfLaterInstance /\ last.op = "get") =>
            last.ret = Get(probe.inherited, last.key)
    /\ (FirstOfLaterInstance /\ last.op = "keys") =>
            last.ret = Keys(probe.inherited)

\* The first operation of a second instance, a get, returned the example
\* envelope, which was put through the first instance.
C22_Witness ==
    /\ FirstOfLaterInstance
    /\ probe.number = 2
    /\ last.op = "get"
    /\ last.ret = Ok(Some(ExampleValue))
    /\ ExampleValue \in putArgs[last.key]

\* C23. Enumeration never skips an API-written key. In every state reached
\* from a store created on a new path through the store's operations, every
\* key of the engine is eight bytes long, keys() returns as many keys as
\* len() counts, and a keys() call returned one key per entry.
C23_NoKeySkipped ==
    /\ \A kb \in DOMAIN db : Len(kb) = 8
    /\ Keys(db).ok /\ StoreLen(db).ok
    /\ Len(Keys(db).val) = StoreLen(db).val
    /\ (last.op = "keys") =>
            /\ last.ret.ok
            /\ Len(last.ret.val) = Cardinality(DOMAIN last.dbBefore)

\* Two puts on a new store left two entries, and keys() has two keys.
C23_Witness ==
    /\ probe.stage = "instance" /\ probe.number = 1
    /\ last.op = "put"
    /\ StoreLen(db) = Ok(2)
    /\ Len(Keys(db).val) = 2

\* A sequence of numbers in strictly ascending order.
Ascending(q) == \A i \in 1..(Len(q) - 1) : q[i] < q[i + 1]

\* C24. keys() is sorted. With one caller at a time, in every state keys()
\* gives the keys in strictly ascending numeric order, and so did every
\* keys() call that returned, whatever the order of the puts.
C24_KeysSorted ==
    /\ Keys(db).ok
    /\ Ascending(Keys(db).val)
    /\ (last.op = "keys") => (last.ret.ok /\ Ascending(last.ret.val))

\* Key 57 was put into a store that already held key 12345, and keys()
\* gives 57 first.
C24_Witness ==
    /\ last.op = "put"
    /\ last.key = 57
    /\ last.before[57] = None
    /\ IsSome(last.before[12345])
    /\ Keys(db) = Ok(<<57, 12345>>)

\* C25. Per-key frame condition. With one caller at a time, a successful
\* put(k, v) or delete(k) leaves get(k') as it was for every other key k',
\* and len() changes by +1 when put creates the entry, 0 when put replaces
\* one, -1 when delete removes one and 0 when delete finds none.
C25_PerKeyFrame ==
    (last.op \in {"put", "delete"} /\ last.ret.ok) =>
        /\ \A k \in KeySet \ {last.key} : Get(db, k) = Get(last.dbBefore, k)
        /\ StoreLen(db).ok /\ StoreLen(last.dbBefore).ok
        /\ StoreLen(db).val - StoreLen(last.dbBefore).val =
                CASE last.op = "put" /\ last.before[last.key] = None -> 1
                  [] last.op = "put" /\ last.before[last.key] # None -> 0
                  [] last.op = "delete" /\ last.before[last.key] # None -> -1
                  [] last.op = "delete" /\ last.before[last.key] = None -> 0

\* A delete removed the entry of key 57 from a store that also holds key
\* 12345, which get still returns.
C25_Witness ==
    /\ last.op = "delete"
    /\ last.key = 57
    /\ IsSome(last.before[57])
    /\ IsSome(last.before[12345])
    /\ Get(db, 12345) = Ok(last.before[12345])
    /\ StoreLen(db) = Ok(1)

\* C26. An undecodable entry blocks put and delete without changing state.
\* While the bytes under a key do not decode, every put and delete on that
\* key returns an error and leaves the engine as it was, and no step removes
\* or changes these bytes, so that contains_key stays true, except the write
\* of a clear().
C26_UndecodableBlocks ==
    [][\A k \in KeySet :
          LET kb == KeyBytes(k) IN
          (kb \in DOMAIN db /\ ~DecodeValue(db[kb]).ok) =>
              /\ (last'.op \in {"put", "delete"} /\ last'.key = k) =>
                      (~last'.ret.ok /\ db' = db)
              /\ (kb \notin DOMAIN db' \/ db'[kb] # db[kb]) =>
                      (last'.op = "clear" /\ last'.ret.ok)
              /\ (kb \in DOMAIN db') => ContainsKey(db', k) = Ok(TRUE)]_vars

\* A put on a key holding foreign bytes returned an error though no engine
\* call failed, and the bytes are still there.
C26_Witness ==
    /\ last.op = "put"
    /\ last.before[last.key] = Foreign
    /\ ~last.ret.ok
    /\ ~last.failed
    /\ EngineGet(db, KeyBytes(last.key)) = Some(ForeignBytes)

\* What each key holds after the calls made so far have run one after the
\* other, in any order, from the initial content.
AfterCalls ==
    [k \in KeySet |->
        CASE probe.calls[k].op = "put" -> Some(probe.calls[k].value)
          [] probe.calls[k].op = "delete" -> None
          [] OTHER -> probe.initial[k]]

\* C27. Operations on distinct keys do not interfere. In every interleaving
\* of put, get and delete calls on pairwise distinct keys, each call returns
\* what it returns when run alone on the initial content, a key on which no
\* call was made holds what it held initially, and once all calls have
\* returned the engine holds what it holds after the calls run one after the
\* other.
C27_DistinctKeysIndependent ==
    (probe.stage = "distinct") =>
        /\ (last.op \in {"put", "get", "delete"}) =>
                last.ret = Ok(probe.initial[last.key])
        /\ \A k \in KeySet :
                (probe.calls[k] = NotCalled) =>
                    EngineGet(db, KeyBytes(k)) = EngineGet(Written(probe.initial), KeyBytes(k))
        /\ Quiet => db = Written(AfterCalls)

\* A put returned while a call on the other key, a put or a delete that
\* changes that key, was between its read and its write.
C27_Witness ==
    /\ probe.stage = "distinct"
    /\ last.op = "put"
    /\ last.ret = Ok(probe.initial[last.key])
    /\ \E x \in Callers :
            /\ pc[x] \in {"put", "delete"}
            /\ call[x].key # last.key
            /\ IsSome(probe.initial[call[x].key])
            /\ (pc[x] = "put") => call[x].value # probe.initial[call[x].key].v

====
